---- MODULE Spec2Model ----
(***************************************************************************)
(* Model of the three phase processes of the project-test action           *)
(* (setup.js, verify.js, cleanup.js) and of the helpers of utils.js they   *)
(* share: checkExec, saveStates, restoreStates, showWarning and            *)
(* checkWarnings.                                                          *)
(*                                                                         *)
(* JavaScript strings are TLA+ strings; a character is a string of length  *)
(* one, read with SubSeq.  A JavaScript value is a record [t, s, n]: its   *)
(* type tag, its text when it is a string, its number when it is a number  *)
(* (1 or 0 when it is a boolean).  A JavaScript object is the sequence of  *)
(* its entries [k, v] in insertion order.                                  *)
(***************************************************************************)
EXTENDS Integers, Sequences, FiniteSets, TLC

VARIABLES
  phase,      \* the process that is running: "setup", "verify", "cleanup", "done"
  pc,         \* position of that process in its run() function
  states,     \* const states = {} of the running process
  status,     \* const status = {} of the running process
  warnings,   \* exports.warnings of the running process
  error,      \* the Error travelling to, and caught by, the catch block
  store,      \* what core.saveState has written for this workflow run
  cache,      \* the keys held by the cache service, oldest first
  failed,     \* per phase: the message given to core.setFailed, "" when not called
  summary,    \* per phase: the text given to core.warning by checkWarnings, "" when none
  trace,      \* the steps executed by the running process, in order
  shown,      \* number of showWarning calls made in this workflow run
  env,        \* the inputs of the workflow run (ref, project input, latest commit)
  run,        \* index of the workflow run
  child,      \* how the last exec.exec call ended
  arg,        \* argument of the helper under test; what is kept of another run or process
  ret         \* what the helper under test returned

vars == <<phase, pc, states, status, warnings, error, store, cache, failed,
          summary, trace, shown, env, run, child, arg, ret>>

----------------------------------------------------------------------------
(* Bounds *)

MaxExit == 1        \* child processes exit with a code in 0..MaxExit
MaxRuns == 2        \* workflow runs executed one after the other
MaxEntries == 2     \* entries of a mapping handed to saveStates under test
MaxWarnings == 11   \* warnings shown by one process under test

----------------------------------------------------------------------------
(* JavaScript values *)

Str(s) == [t |-> "string", s |-> s, n |-> 0]
Num(n) == [t |-> "number", s |-> "", n |-> n]
Bool(b) == [t |-> "boolean", s |-> "", n |-> IF b THEN 1 ELSE 0]
Undefined == [t |-> "undefined", s |-> "", n |-> 0]

\* a == undefined, for a a string or undefined
IsUndefined(a) == a.t = "undefined"

\* if (a): a is truthy
Truthy(a) ==
  CASE a.t = "string" -> a.s # ""
    [] a.t = "number" -> a.n # 0
    [] a.t = "boolean" -> a.n = 1
    [] OTHER -> FALSE

Digit(d) == SubSeq("0123456789", d + 1, d + 1)

RECURSIVE IntToStr(_)
\* String(n) and JSON.stringify(n) of a non-negative integer
IntToStr(n) == IF n < 10 THEN Digit(n) ELSE IntToStr(n \div 10) \o Digit(n % 10)

\* `${v}` in a template literal
TemplateStr(v) ==
  CASE v.t = "string" -> v.s
    [] v.t = "number" -> IntToStr(v.n)
    [] v.t = "boolean" -> (IF v.n = 1 THEN "true" ELSE "false")
    [] OTHER -> "undefined"

\* s[i], "" past the end
Char(s, i) == IF i \in 1..Len(s) THEN SubSeq(s, i, i) ELSE ""

RECURSIVE IsDigits(_)
\* s is empty or made of decimal digits only
IsDigits(s) ==
  \/ s = ""
  \/ /\ \E d \in 0..9 : Char(s, 1) = Digit(d)
     /\ IsDigits(SubSeq(s, 2, Len(s)))

RECURSIVE ParseInt(_)
\* +s for a string of decimal digits
ParseInt(s) ==
  IF s = "" THEN 0
  ELSE LET d == CHOOSE x \in 0..9 : Char(s, Len(s)) = Digit(x)
       IN ParseInt(SubSeq(s, 1, Len(s) - 1)) * 10 + d

\* s.startsWith(p)
StartsWith(s, p) == Len(s) >= Len(p) /\ SubSeq(s, 1, Len(p)) = p

\* s.includes(p)
Includes(s, p) == \E i \in 1..(Len(s) - Len(p) + 1) : SubSeq(s, i, i + Len(p) - 1) = p

----------------------------------------------------------------------------
(* JavaScript objects: entries in insertion order *)

Keys(o) == [i \in 1..Len(o) |-> o[i].k]

\* 'k' in o
Has(o, k) == \E i \in 1..Len(o) : o[i].k = k

\* o[k], undefined when k is not in o
Get(o, k) ==
  IF Has(o, k) THEN o[CHOOSE i \in 1..Len(o) : o[i].k = k].v ELSE Undefined

\* o[k] = v
Put(o, k, v) ==
  IF Has(o, k)
  THEN [i \in 1..Len(o) |-> IF o[i].k = k THEN [k |-> k, v |-> v] ELSE o[i]]
  ELSE Append(o, [k |-> k, v |-> v])

----------------------------------------------------------------------------
(* JSON.stringify and JSON.parse of an array of strings.  The strings of   *)
(* the model hold no control characters, so the only escapes are \" and \\ *)

RECURSIVE JSONEscape(_)
JSONEscape(s) ==
  IF s = "" THEN ""
  ELSE LET c == Char(s, 1)
       IN (IF c \in {"\"", "\\"} THEN "\\" \o c ELSE c) \o JSONEscape(SubSeq(s, 2, Len(s)))

JSONQuote(s) == "\"" \o JSONEscape(s) \o "\""

RECURSIVE JSONJoin(_)
JSONJoin(a) ==
  IF Len(a) = 0 THEN ""
  ELSE IF Len(a) = 1 THEN JSONQuote(a[1])
  ELSE JSONQuote(a[1]) \o "," \o JSONJoin(Tail(a))

\* JSON.stringify(a) for an array a of strings
JSONStringify(a) == "[" \o JSONJoin(a) \o "]"

JSONFail == [ok |-> FALSE, val |-> <<>>]

RECURSIVE JSONReadString(_, _, _)
\* reads a string literal whose opening quote is before position i
JSONReadString(s, i, acc) ==
  IF i > Len(s) THEN [ok |-> FALSE, str |-> "", next |-> i]
  ELSE IF Char(s, i) = "\"" THEN [ok |-> TRUE, str |-> acc, next |-> i + 1]
  ELSE IF Char(s, i) = "\\"
       THEN IF Char(s, i + 1) \in {"\"", "\\"}
            THEN JSONReadString(s, i + 2, acc \o Char(s, i + 1))
            ELSE [ok |-> FALSE, str |-> "", next |-> i]
  ELSE JSONReadString(s, i + 1, acc \o Char(s, i))

RECURSIVE JSONReadElements(_, _, _)
\* goes on after the string literal r of an array element
JSONAfterString(s, r, acc) ==
  IF ~r.ok THEN JSONFail
  ELSE IF Char(s, r.next) = ","
       THEN JSONReadElements(s, r.next + 1, Append(acc, r.str))
  ELSE IF Char(s, r.next) = "]" /\ r.next = Len(s)
       THEN [ok |-> TRUE, val |-> Append(acc, r.str)]
  ELSE JSONFail

\* reads the elements of an array from position i on; the literal is read
\* once, as the value of a bound variable
JSONReadElements(s, i, acc) ==
  IF Char(s, i) # "\"" THEN JSONFail
  ELSE CHOOSE out \in {JSONAfterString(s, r, acc) : r \in {JSONReadString(s, i + 1, "")}} : TRUE

\* JSON.parse(s) for the text of an array of strings; ok is FALSE when it throws
JSONParse(s) ==
  IF s = "[]" THEN [ok |-> TRUE, val |-> <<>>]
  ELSE IF Char(s, 1) = "[" THEN JSONReadElements(s, 2, <<>>)
  ELSE JSONFail

----------------------------------------------------------------------------
(* @actions/core state commands, and saveStates / restoreStates of utils.js *)

\* toCommandValue(input) of @actions/core, for the values the phases save
ToCommandValue(v) ==
  CASE v.t = "undefined" -> ""
    [] v.t = "string" -> v.s
    [] v.t = "number" -> IntToStr(v.n)
    [] OTHER -> (IF v.n = 1 THEN "true" ELSE "false")

\* core.saveState(name, value)
SaveState(st, name, value) == Put(st, name, ToCommandValue(value))

\* core.getState(name)
GetState(st, name) == IF Has(st, name) THEN Get(st, name) ELSE ""

RECURSIVE SaveEach(_, _, _)
\* the for-in loop of saveStates from entry i on
SaveEach(st, o, i) ==
  IF i > Len(o) THEN st
  ELSE SaveEach(SaveState(st, o[i].k, o[i].v), o, i + 1)

\* saveStates, a plausible slip: the index entry is not written
SaveStatesNoIndex(st, o) == SaveEach(st, o, 1)

\* utils.saveStates(states): the store afterwards
SaveStates(st, o) ==
  SaveState(SaveEach(st, o, 1), "keys", Str(JSONStringify(Keys(o))))

RECURSIVE RestoreEachSkipFirst(_, _, _, _)
\* RestoreEach, a plausible slip: the loop leaves out the first key of the index
RestoreEachSkipFirst(st, o, keys, i) ==
  IF i > Len(keys) THEN o
  ELSE RestoreEachSkipFirst(st,
         IF i = 1 THEN o ELSE Put(o, keys[i], Str(GetState(st, keys[i]))),
         keys, i + 1)

RECURSIVE RestoreEach(_, _, _, _)
\* the for-of loop of restoreStates from key i on; the object is carried from
\* one round to the next as the value of a bound variable
RestoreEach(st, o, keys, i) ==
  IF i > Len(keys) THEN o
  ELSE CHOOSE out \in {RestoreEach(st, next, keys, i + 1) :
                         next \in {Put(o, keys[i], Str(GetState(st, keys[i])))}} : TRUE

\* the rest of restoreStates once the index is parsed into keys
RestoreParsed(st, o, keys) ==
  IF keys.ok
  THEN [ok |-> TRUE, val |-> RestoreEach(st, o, keys.val, 1),
        read |-> <<"keys">> \o keys.val]
  ELSE [ok |-> FALSE, val |-> o, read |-> <<"keys">>]

\* restoreStates, a plausible slip: the index is parsed without the test
\* if (input)
RestoreStatesNoCheck(st, o) ==
  CHOOSE out \in {RestoreParsed(st, o, keys) :
                    keys \in {JSONParse(GetState(st, "keys"))}} : TRUE

\* utils.restoreStates(states): ok is FALSE when it throws, val is states
\* afterwards, read is the names it passed to core.getState; the index is
\* parsed once, as the value of a bound variable
RestoreStates(st, o) ==
  IF GetState(st, "keys") # ""
  THEN CHOOSE out \in {RestoreParsed(st, o, keys) :
                         keys \in {JSONParse(GetState(st, "keys"))}} : TRUE
  ELSE [ok |-> TRUE, val |-> o, read |-> <<"keys">>]

----------------------------------------------------------------------------
(* exec.exec of @actions/exec with ignoreReturnCode, and checkExec *)

ExitCodes == 0..MaxExit

\* exec.exec resolves with the exit code of the child, or rejects when the
\* child cannot be started
ExecOutcomes ==
  {[rejected |-> FALSE, code |-> c, message |-> ""] : c \in ExitCodes}
    \cup {[rejected |-> TRUE, code |-> 0, message |-> "Unable to locate executable file"]}

NoChild == [rejected |-> FALSE, code |-> 0, message |-> ""]

\* checkExec, a plausible slip: the exit code is checked whether or not
\* settings.error is given
CheckExecAlwaysChecks(settings, outcome) ==
  IF outcome.rejected
  THEN [thrown |-> TRUE, message |-> outcome.message, value |-> 0]
  ELSE IF outcome.code # 0
  THEN [thrown |-> TRUE,
        message |-> TemplateStr(Get(settings, "error")) \o " (" \o IntToStr(outcome.code) \o ").",
        value |-> 0]
  ELSE [thrown |-> FALSE, message |-> "", value |-> outcome.code]

\* checkExec, a plausible slip: the message of the Error leaves the code out
CheckExecNoCode(settings, outcome) ==
  IF outcome.rejected
  THEN [thrown |-> TRUE, message |-> outcome.message, value |-> 0]
  ELSE IF Has(settings, "error") /\ outcome.code # 0
  THEN [thrown |-> TRUE, message |-> TemplateStr(Get(settings, "error")) \o ".", value |-> 0]
  ELSE [thrown |-> FALSE, message |-> "", value |-> outcome.code]

\* utils.checkExec(command, settings) when exec.exec ends with outcome:
\* either it throws an Error with this message or it returns value
CheckExec(settings, outcome) ==
  IF outcome.rejected
  THEN [thrown |-> TRUE, message |-> outcome.message, value |-> 0]
  ELSE IF Has(settings, "error") /\ outcome.code # 0
  THEN [thrown |-> TRUE,
        message |-> TemplateStr(Get(settings, "error")) \o " (" \o IntToStr(outcome.code) \o ").",
        value |-> 0]
  ELSE [thrown |-> FALSE, message |-> "", value |-> outcome.code]

----------------------------------------------------------------------------
(* showWarning and checkWarnings of utils.js *)

\* the text checkWarnings(phase) gives to core.warning, "" when it gives none
\* checkWarnings, a plausible slip: the plural text for every count above 0
CheckWarningsPlural(count, label) ==
  IF count > 0
  THEN "There were " \o IntToStr(count) \o " warnings in the " \o label
         \o " phase. View the run log for details."
  ELSE ""

CheckWarnings(count, label) ==
  IF count > 1
  THEN "There were " \o IntToStr(count) \o " warnings in the " \o label
         \o " phase. View the run log for details."
  ELSE IF count = 1
  THEN "There was " \o IntToStr(count) \o " warning in the " \o label
         \o " phase. View the run log for details."
  ELSE ""

----------------------------------------------------------------------------
(* The cache service behind cache.restoreCache and cache.saveCache *)

mainDir == "project-main"
testDir == "project-tests"

\* index of the newest entry of c whose key starts with prefix, 0 when none
NewestWithPrefix(c, prefix) ==
  LET hits == {i \in 1..Len(c) : StartsWith(c[i], prefix)}
  IN IF hits = {} THEN 0 ELSE CHOOSE i \in hits : \A j \in hits : j <= i

RECURSIVE RestoreByPrefix(_, _, _)
\* the restore keys are tried in the order they are given
RestoreByPrefix(c, prefixes, i) ==
  IF i > Len(prefixes) THEN Undefined
  ELSE IF NewestWithPrefix(c, prefixes[i]) # 0
  THEN Str(c[NewestWithPrefix(c, prefixes[i])])
  ELSE RestoreByPrefix(c, prefixes, i + 1)

\* RestoreCache, a plausible slip: the restore keys are tried before the key
\* itself, and the oldest entry with the prefix is taken
RestoreCachePrefixFirst(c, key, prefixes) ==
  IF \E i \in 1..Len(c) : \E j \in 1..Len(prefixes) : StartsWith(c[i], prefixes[j])
  THEN Str(c[CHOOSE i \in 1..Len(c) :
               /\ \E j \in 1..Len(prefixes) : StartsWith(c[i], prefixes[j])
               /\ \A k \in 1..(i - 1) :
                    \A j \in 1..Len(prefixes) : ~StartsWith(c[k], prefixes[j])])
  ELSE Undefined

\* cache.restoreCache(paths, key, restoreKeys) when it does not throw: the
\* key itself when the cache holds it, else the newest key with one of the
\* prefixes, else undefined
RestoreCache(c, key, prefixes) ==
  IF \E i \in 1..Len(c) : c[i] = key THEN Str(key)
  ELSE RestoreByPrefix(c, prefixes, 1)

----------------------------------------------------------------------------
(* Text helpers of the setup phase *)

RECURSIVE LastToken(_)
\* tokens[tokens.length - 1] of s.split('/')
LastToken(s) ==
  IF ~Includes(s, "/") THEN s
  ELSE LastToken(SubSeq(s, 2, Len(s)))

\* version.match(/^v([1-4])\.(\d+)\.(\d+)$/): ok and the three groups
MatchVersion(v) ==
  LET rest == SubSeq(v, 4, Len(v))
      dots == {i \in 1..Len(rest) :
                 /\ Char(rest, i) = "."
                 /\ i > 1 /\ i < Len(rest)
                 /\ IsDigits(SubSeq(rest, 1, i - 1))
                 /\ IsDigits(SubSeq(rest, i + 1, Len(rest)))}
  IN IF /\ Len(v) >= 6
        /\ Char(v, 1) = "v"
        /\ Char(v, 2) \in {"1", "2", "3", "4"}
        /\ Char(v, 3) = "."
        /\ dots # {}
     THEN LET d == CHOOSE i \in dots : TRUE
          IN [ok |-> TRUE, g1 |-> Char(v, 2), g2 |-> SubSeq(rest, 1, d - 1),
              g3 |-> SubSeq(rest, d + 1, Len(rest))]
     ELSE [ok |-> FALSE, g1 |-> "", g2 |-> "", g3 |-> ""]

ValidProjects == {"1", "2", "3a", "3b", "4"}

\* ResolveProject, a plausible slip: 3a or 3b is decided by the third group
\* of the match instead of the second
ResolveProjectByPatch(version, input) ==
  LET matched == MatchVersion(version)
  IN IF matched.ok
     THEN IF ParseInt(matched.g1) = 3
          THEN (IF ParseInt(matched.g3) = 0 THEN Str("3a") ELSE Str("3b"))
          ELSE Num(ParseInt(matched.g1))
     ELSE IF input # "" /\ input \in ValidProjects THEN Str(input)
     ELSE Undefined

\* ResolveProject, a plausible slip: the else branch that throws is missing
\* and the placeholder stays
ResolveProjectNoThrow(version, input) ==
  LET matched == MatchVersion(version)
  IN IF matched.ok
     THEN IF ParseInt(matched.g1) = 3
          THEN (IF ParseInt(matched.g2) = 0 THEN Str("3a") ELSE Str("3b"))
          ELSE Num(ParseInt(matched.g1))
     ELSE IF input # "" /\ input \in ValidProjects THEN Str(input)
     ELSE Str("*")

\* lines 38-61 of setup.js: states.project, undefined when the Error is thrown
ResolveProject(version, input) ==
  LET matched == MatchVersion(version)
  IN IF matched.ok
     THEN IF ParseInt(matched.g1) = 3
          THEN (IF ParseInt(matched.g2) = 0 THEN Str("3a") ELSE Str("3b"))
          ELSE Num(ParseInt(matched.g1))
     ELSE IF input # "" /\ input \in ValidProjects THEN Str(input)
     ELSE Undefined

RECURSIVE ToLowerCase(_)
\* s.toLowerCase() for ASCII text
ToLowerCase(s) ==
  IF s = "" THEN ""
  ELSE LET c == Char(s, 1)
           up == {i \in 1..26 : Char("ABCDEFGHIJKLMNOPQRSTUVWXYZ", i) = c}
       IN (IF up = {} THEN c
           ELSE Char("abcdefghijklmnopqrstuvwxyz", CHOOSE i \in up : TRUE))
            \o ToLowerCase(SubSeq(s, 2, Len(s)))

----------------------------------------------------------------------------
(* The workflow run: its inputs and the start of its processes *)

Refs == {"refs/tags/v1.0.0", "refs/tags/v9.9", "refs/heads/main"}
ProjectInputs == {"", "3a", "5"}
Hashes == {"abc123", "xyz999"}

Envs ==
  [ref : Refs, project : ProjectInputs, hash : Hashes,
   owner : {"usf-cs272"}, repo : {"project-ada"}]

\* what the cache service may hold before the first run
InitCaches == {<<>>, <<testDir \o "-xyz999", mainDir \o "-abc123">>}

NoFailure == [setup |-> "", verify |-> "", cleanup |-> ""]
NoArg == <<>>
NoRet == [ok |-> TRUE, val |-> <<>>]

Init ==
  /\ phase = "setup"
  /\ pc = "parse"
  /\ states = <<>>
  /\ status = <<>>
  /\ warnings = 0
  /\ error = ""
  /\ store = <<>>
  /\ cache \in InitCaches
  /\ failed = NoFailure
  /\ summary = NoFailure
  /\ trace = <<>>
  /\ shown = 0
  /\ env \in Envs
  /\ run = 1
  /\ child = NoChild
  /\ arg = NoArg
  /\ ret = NoRet

\* settings of a checkExec call: the error message when one is given
WithError(message) == <<[k |-> "error", v |-> Str(message)]>>
WithoutError == <<>>

Event(p, step) == p \o ":" \o step

\* status[key] = await utils.checkExec(command, settings) at position here of
\* phase p; key is "" when the result is not kept
ExecStep(p, here, settings, key, next, catch) ==
  /\ phase = p
  /\ pc = here
  /\ \E outcome \in ExecOutcomes :
       LET r == CheckExec(settings, outcome)
       IN /\ child' = outcome
          /\ IF r.thrown
             THEN /\ error' = r.message
                  /\ pc' = catch
                  /\ status' = status
             ELSE /\ error' = error
                  /\ pc' = next
                  /\ status' = IF key = "" THEN status ELSE Put(status, key, Num(r.value))
  /\ trace' = Append(trace, Event(p, here))
  /\ UNCHANGED <<phase, states, warnings, store, cache, failed, summary, shown,
                 env, run, arg, ret>>

----------------------------------------------------------------------------
(* setup.js *)

\* lines 18-71: parsing project details
SetupParse ==
  /\ phase = "setup"
  /\ pc = "parse"
  /\ LET version == LastToken(env.ref)
         project == ResolveProject(version, env.project)
         s1 == Put(states, "owner", Str(env.owner))
         s2 == Put(s1, "mainRepo", Str(env.owner \o "/" \o env.repo))
         s3 == Put(s2, "testRepo", Str(env.owner \o "/" \o testDir))
         s4 == Put(s3, "project", Str("*"))
     IN IF project = Undefined
        THEN /\ states' = s4
             /\ error' = "Unable to determine project from " \o version
                  \o " or user input. Double check release is properly named (with a lowercase \"v\" at the start)."
             /\ pc' = "catch"
        ELSE /\ states' = Put(Put(Put(s4, "project", project), "version", Str(version)),
                              "tester", Str("Project" \o TemplateStr(project) \o "Test*"))
             /\ error' = error
             /\ pc' = "mainClone"
  /\ trace' = Append(trace, Event("setup", "parse"))
  /\ UNCHANGED <<phase, status, warnings, store, cache, failed, summary, shown,
                 env, run, child, arg, ret>>

\* lines 77-83
SetupMainClone ==
  ExecStep("setup", "mainClone",
           WithError("Failed cloning " \o TemplateStr(Get(states, "mainRepo")) \o " repository"),
           "mainClone", "mainLs", "catch")

\* lines 85-89
SetupMainLs ==
  ExecStep("setup", "mainLs", WithError("Unable to list main directory"),
           "", "listCommits", "catch")

\* how octokit.repos.listCommits may fail, and the TypeError of
\* commits.data[0].sha when the repository has no commit
ListErrors == {"Not Found", "Cannot read property 'sha' of undefined"}

\* CacheKey, a plausible slip: the key also names the version under test
CacheKeyWithVersion(st, hash) ==
  testDir \o "-" \o TemplateStr(Get(st, "version")) \o "-" \o hash

\* line 108: `${utils.testDir}-${hash}`, hash being result.data[0].sha
CacheKey(st, hash) == testDir \o "-" \o hash

\* lines 98-112
SetupListCommits ==
  /\ phase = "setup"
  /\ pc = "listCommits"
  /\ \/ /\ states' = Put(states, "testKey", Str(CacheKey(states, env.hash)))
        /\ pc' = "restoreCache"
        /\ error' = error
     \/ \E message \in ListErrors :
          /\ error' = "Unable to list " \o testDir \o " commits (" \o ToLowerCase(message) \o ")."
          /\ pc' = "catch"
          /\ states' = states
  /\ trace' = Append(trace, Event("setup", "listCommits"))
  /\ UNCHANGED <<phase, status, warnings, store, cache, failed, summary, shown,
                 env, run, child, arg, ret>>

\* how cache.restoreCache and cache.saveCache may fail
CacheErrors == {"Cache service responded with 503"}

\* AfterRestore, a plausible slip: any restored key is pulled, the exact one too
AfterRestorePullAny(testKey, found) ==
  IF ~IsUndefined(found) THEN "gitStatus"
  ELSE IF IsUndefined(found) THEN "testClone"
  ELSE "dirLs"

\* lines 124 and 152: where setup goes once the cache answered found
AfterRestore(testKey, found) ==
  IF ~IsUndefined(found) /\ testKey # found THEN "gitStatus"
  ELSE IF IsUndefined(found) THEN "testClone"
  ELSE "dirLs"

\* RestoreWarns, a plausible slip: the warning of lines 146-148 is left out
RestoreWarnsNever(found) == FALSE

\* lines 146-148: if (!status.testCache) utils.showWarning(...)
RestoreWarns(found) == ~Truthy(found)

\* lines 114-124 and, when the pull is not needed, lines 142-152
SetupRestoreCache ==
  /\ phase = "setup"
  /\ pc = "restoreCache"
  /\ \/ LET testKey == Get(states, "testKey")
            found == RestoreCache(cache, testKey.s, <<testDir \o "-">>)
        IN /\ status' = Put(status, "testCache", found)
           /\ states' = Put(states, "testCache", found)
           /\ error' = error
           /\ pc' = AfterRestore(testKey, found)
           /\ IF RestoreWarns(found)
              THEN warnings' = warnings + 1 /\ shown' = shown + 1
              ELSE UNCHANGED <<warnings, shown>>
     \/ \E message \in CacheErrors :
          /\ error' = message
          /\ pc' = "catch"
          /\ UNCHANGED <<status, states, warnings, shown>>
  /\ trace' = Append(trace, Event("setup", "restoreCache"))
  /\ UNCHANGED <<phase, store, cache, failed, summary, env, run, child, arg, ret>>

\* lines 127-132
SetupGitStatus ==
  ExecStep("setup", "gitStatus", WithError("Unable to check " \o testDir \o " git status"),
           "", "gitPull", "catch")

\* lines 134-139 and 142-152: the restored key is a non-empty string, so
\* neither the warning nor the clone follows
SetupGitPull ==
  ExecStep("setup", "gitPull", WithError("Unable to pull latest " \o testDir \o " version"),
           "", "dirLs", "catch")

\* lines 155-159
SetupTestClone ==
  ExecStep("setup", "testClone",
           WithError("Failed cloning " \o TemplateStr(Get(states, "testRepo")) \o " repository"),
           "testClone", "testLs", "catch")

\* lines 161-165
SetupTestLs ==
  ExecStep("setup", "testLs", WithError("Unable to list test directory"),
           "", "dirLs", "catch")

\* lines 174-184: the last listing, then utils.saveStates(states)
SetupDirLs ==
  /\ phase = "setup"
  /\ pc = "dirLs"
  /\ \E outcome \in ExecOutcomes :
       LET r == CheckExec(WithError("Unable to list project directory"), outcome)
       IN /\ child' = outcome
          /\ IF r.thrown
             THEN /\ error' = r.message
                  /\ pc' = "catch"
                  /\ store' = store
                  /\ trace' = Append(trace, Event("setup", "dirLs"))
             ELSE /\ error' = error
                  /\ pc' = "finally"
                  /\ store' = SaveStates(store, states)
                  /\ trace' = trace \o <<Event("setup", "dirLs"), Event("setup", "saveStates")>>
  /\ UNCHANGED <<phase, states, status, warnings, cache, failed, summary, shown,
                 env, run, arg, ret>>

\* lines 186-192
SetupCatch ==
  /\ phase = "setup"
  /\ pc = "catch"
  /\ failed' = [failed EXCEPT !.setup = "Setup failed. " \o error]
  /\ pc' = "finally"
  /\ trace' = Append(trace, Event("setup", "setFailed"))
  /\ UNCHANGED <<phase, states, status, warnings, error, store, cache, summary,
                 shown, env, run, child, arg, ret>>

\* lines 193-200
SetupFinally ==
  /\ phase = "setup"
  /\ pc = "finally"
  /\ summary' = [summary EXCEPT !.setup = CheckWarnings(warnings, "\"Pre Test Project\"")]
  /\ pc' = "end"
  /\ trace' = Append(trace, Event("setup", "checkWarnings"))
  /\ UNCHANGED <<phase, states, status, warnings, error, store, cache, failed,
                 shown, env, run, child, arg, ret>>

Setup ==
  \/ SetupParse \/ SetupMainClone \/ SetupMainLs \/ SetupListCommits
  \/ SetupRestoreCache \/ SetupGitStatus \/ SetupGitPull \/ SetupTestClone
  \/ SetupTestLs \/ SetupDirLs \/ SetupCatch \/ SetupFinally

----------------------------------------------------------------------------
(* verify.js *)

\* StartProcess, a plausible slip: the status map is kept in a place that
\* outlives the process, so the next phase starts with the one before it
StartProcessKeepStatus(p, first) ==
  /\ phase' = p
  /\ pc' = first
  /\ states' = <<>>
  /\ status' = status
  /\ warnings' = 0
  /\ error' = ""
  /\ child' = NoChild
  /\ trace' = <<>>
  /\ UNCHANGED <<store, cache, failed, summary, shown, env, run, arg, ret>>

\* a new process starts at position first of phase p: its module variables
\* and the objects of run() are fresh, the store is what the last one left
StartProcess(p, first) ==
  /\ phase' = p
  /\ pc' = first
  /\ states' = <<>>
  /\ status' = <<>>
  /\ warnings' = 0
  /\ error' = ""
  /\ child' = NoChild
  /\ trace' = <<>>
  /\ UNCHANGED <<store, cache, failed, summary, shown, env, run, arg, ret>>

\* the host runs the main step after a pre step that did not fail
StartVerify ==
  /\ phase = "setup"
  /\ pc = "end"
  /\ failed.setup = ""
  /\ StartProcess("verify", "restore")

\* line 266; the Error of JSON.parse, if any, goes to the catch block
VerifyRestore ==
  /\ phase = "verify"
  /\ pc = "restore"
  /\ \E r \in {RestoreStates(store, states)} :
        IF r.ok
        THEN /\ states' = r.val
             /\ pc' = "java"
             /\ error' = error
        ELSE /\ states' = states
             /\ pc' = "catch"
             /\ error' = "Unexpected token in JSON"
  /\ trace' = Append(trace, Event("verify", "restoreStates"))
  /\ UNCHANGED <<phase, status, warnings, store, cache, failed, summary, shown,
                 env, run, child, arg, ret>>

\* lines 271-275
VerifyJava ==
  ExecStep("verify", "java", WithError("Unable to display Java runtime version"),
           "", "javac", "catch")

\* lines 277-281
VerifyJavac ==
  ExecStep("verify", "javac", WithError("Unable to display Java compiler version"),
           "", "mvnVersion", "catch")

\* lines 283-287
VerifyMvnVersion ==
  ExecStep("verify", "mvnVersion", WithError("Unable to display Maven version"),
           "", "maven", "catch")

\* lines 296-299
VerifyMaven ==
  ExecStep("verify", "maven", WithError("Updating returned non-zero exit code"),
           "maven", "mainWarnings", "catch")

\* lines 308-312: no error message, the exit code is only kept
VerifyMainWarnings ==
  ExecStep("verify", "mainWarnings", WithoutError, "mainWarnings", "mainCompile", "catch")

\* lines 314-323
VerifyMainCompile ==
  ExecStep("verify", "mainCompile", WithError("Recompiling returned non-zero exit code"),
           "mainCompile", "lsClasses", "catch")

\* lines 325-329
VerifyLsClasses ==
  ExecStep("verify", "lsClasses", WithError("Unable to list main class directory"),
           "", "testCompile", "catch")

\* lines 338-343
VerifyTestCompile ==
  ExecStep("verify", "testCompile", WithError("Compiling returned non-zero exit code"),
           "testCompile", "lsTestClasses", "catch")

\* lines 345-349
VerifyLsTestClasses ==
  ExecStep("verify", "lsTestClasses", WithError("Unable to list test class directory"),
           "", "tests", "catch")

\* line 371: states.message
Message(passed, project, version) ==
  IF passed
  THEN "All Project " \o TemplateStr(project) \o " verification tests of "
         \o TemplateStr(version) \o " passed!"
  ELSE "One or more Project " \o TemplateStr(project) \o " verification tests of "
         \o TemplateStr(version) \o " failed."

\* AfterTests, a plausible slip: the test of states.passed is missing and the
\* debug run and the throw follow every test run
AfterTestsAlwaysDebug(passed) == "debug"

\* AfterTests, a plausible slip: the error is thrown before the debug run
AfterTestsNoDebug(passed) == IF passed # Bool(TRUE) THEN "catch" ELSE "finally"

\* lines 378-394: if (states.passed !== true) the debug run and the throw,
\* else showSuccess and the end of the try block
AfterTests(passed) == IF passed # Bool(TRUE) THEN "debug" ELSE "finally"

\* lines 360-378 and 392-394: the verification tests, without an error
\* message, then states.passed and states.message
VerifyTests ==
  /\ phase = "verify"
  /\ pc = "tests"
  /\ \E outcome \in ExecOutcomes :
       LET r == CheckExec(WithoutError, outcome)
           passed == r.value = 0
       IN /\ child' = outcome
          /\ IF r.thrown
             THEN /\ error' = r.message
                  /\ pc' = "catch"
                  /\ UNCHANGED <<status, states>>
             ELSE /\ error' = error
                  /\ status' = Put(status, "verify", Num(r.value))
                  /\ states' = Put(Put(states, "passed", Bool(passed)), "message",
                                   Str(Message(passed, Get(states, "project"),
                                               Get(states, "version"))))
                  /\ pc' = AfterTests(Bool(passed))
  /\ trace' = Append(trace, Event("verify", "tests"))
  /\ UNCHANGED <<phase, warnings, store, cache, failed, summary, shown, env, run,
                 arg, ret>>

\* lines 379-387: the debug tests, without an error message, then
\* throw new Error(states.message)
VerifyDebug ==
  /\ phase = "verify"
  /\ pc = "debug"
  /\ \E outcome \in ExecOutcomes :
       LET r == CheckExec(WithoutError, outcome)
       IN /\ child' = outcome
          /\ IF r.thrown
             THEN /\ error' = r.message
                  /\ status' = status
             ELSE /\ error' = TemplateStr(Get(states, "message"))
                  /\ status' = Put(status, "debug", Num(r.value))
  /\ pc' = "catch"
  /\ trace' = Append(trace, Event("verify", "debug"))
  /\ UNCHANGED <<phase, states, warnings, store, cache, failed, summary, shown,
                 env, run, arg, ret>>

\* lines 397-403
VerifyCatch ==
  /\ phase = "verify"
  /\ pc = "catch"
  /\ failed' = [failed EXCEPT !.verify = "Unable to verify project. " \o error]
  /\ pc' = "finally"
  /\ trace' = Append(trace, Event("verify", "setFailed"))
  /\ UNCHANGED <<phase, states, status, warnings, error, store, cache, summary,
                 shown, env, run, child, arg, ret>>

\* lines 404-414
VerifyFinally ==
  /\ phase = "verify"
  /\ pc = "finally"
  /\ store' = SaveStates(store, states)
  /\ summary' = [summary EXCEPT !.verify = CheckWarnings(warnings, "\"Test Project\"")]
  /\ pc' = "end"
  /\ trace' = trace \o <<Event("verify", "saveStates"), Event("verify", "checkWarnings")>>
  /\ UNCHANGED <<phase, states, status, warnings, error, cache, failed, shown,
                 env, run, child, arg, ret>>

Verify ==
  \/ StartVerify \/ VerifyRestore \/ VerifyJava \/ VerifyJavac \/ VerifyMvnVersion
  \/ VerifyMaven \/ VerifyMainWarnings \/ VerifyMainCompile \/ VerifyLsClasses
  \/ VerifyTestCompile \/ VerifyLsTestClasses \/ VerifyTests \/ VerifyDebug
  \/ VerifyCatch \/ VerifyFinally

----------------------------------------------------------------------------
(* cleanup.js *)

\* the host runs the post step after the main step, whether or not it failed
StartCleanup ==
  /\ phase = "verify"
  /\ pc = "end"
  /\ StartProcess("cleanup", "restore")

\* the host skips the main step after a failed pre step and runs the post step
SkipVerify ==
  /\ phase = "setup"
  /\ pc = "end"
  /\ failed.setup # ""
  /\ StartProcess("cleanup", "restore")

\* ReportsWanted, a plausible slip: the membership test is missing, so an
\* absent passed (undefined !== 'true') asks for the reports
ReportsWantedNoMembership(st) == Get(st, "passed") # Str("true")

\* ReportsWanted, a plausible slip: the comparison has the wrong polarity
ReportsWantedOnPass(st) == Has(st, "passed") /\ Get(st, "passed") = Str("true")

\* line 22: 'passed' in states && states.passed !== 'true'
ReportsWanted(st) == Has(st, "passed") /\ Get(st, "passed") # Str("true")

\* line 159
ReleaseWanted(st, ref) ==
  Has(st, "passed") /\ Has(st, "message") /\ StartsWith(ref, "refs/tags/v")

\* SaveWanted, a plausible slip: the test of testCache is missing
SaveWantedAlways(st) == Has(st, "testKey")

\* lines 212-213: the cache is saved
SaveWanted(st) ==
  /\ Has(st, "testKey")
  /\ ~(Has(st, "testCache") /\ Get(st, "testKey") = Get(st, "testCache"))

\* where cleanup goes after the release group: lines 206-224
AfterRelease(st) == IF SaveWanted(st) THEN "saveCache" ELSE "log"

\* AfterActual, a plausible slip: the cache group sits inside the branch of
\* the release test, so a run that updates no release never saves the cache
AfterActualSkipCache(st, ref) ==
  IF ReleaseWanted(st, ref) THEN "getRelease" ELSE "log"

\* where cleanup goes after the two reporting groups: lines 151-159, 193-195
AfterActual(st, ref) == IF ReleaseWanted(st, ref) THEN "getRelease" ELSE AfterRelease(st)

\* lines 18-22 and, when no report is wanted, lines 147-149
CleanupRestore ==
  /\ phase = "cleanup"
  /\ pc = "restore"
  /\ \E r \in {RestoreStates(store, states)} :
        IF r.ok
        THEN /\ states' = r.val
             /\ pc' = IF ReportsWanted(r.val) THEN "reports" ELSE AfterActual(r.val, env.ref)
        ELSE /\ states' = states
             /\ pc' = "crashed"
  /\ trace' = Append(trace, Event("cleanup", "restoreStates"))
  /\ UNCHANGED <<phase, status, warnings, error, store, cache, failed, summary,
                 shown, env, run, child, arg, ret>>

\* lines 29-34
CleanupReports ==
  ExecStep("cleanup", "reports", WithError("Unable to generate reports"),
           "reports", "site", "reportsCatch")

\* lines 38-43
CleanupSite ==
  ExecStep("cleanup", "site", WithError("Unable to generate report site"),
           "site", "lsSite", "reportsCatch")

\* lines 47-51
CleanupLsSite ==
  ExecStep("cleanup", "lsSite", WithError("Unable to list site directory"),
           "", "siteZip", "reportsCatch")

\* lines 60-65
CleanupSiteZip ==
  ExecStep("cleanup", "siteZip", WithError("Unable to zip test report site"),
           "siteZip", "lsReports", "reportsCatch")

\* lines 67-71
CleanupLsReports ==
  ExecStep("cleanup", "lsReports", WithError("Unable to list working directory"),
           "", "uploadReports", "reportsCatch")

\* how artifactClient.uploadArtifact and glob may fail
UploadErrors == {"Artifact upload failed"}

\* what uploadArtifact resolves with for one file: the items that failed and the size
UploadResults(file) ==
  {[t |-> "object", s |-> "", n |-> 1024], [t |-> "object", s |-> file, n |-> 0]}

\* status[key] = await artifactClient.uploadArtifact(name, [file], '.') and
\* the check of failedItems that follows
UploadStep(here, key, file, next, catch) ==
  /\ phase = "cleanup"
  /\ pc = here
  /\ \/ \E result \in UploadResults(file) :
          /\ status' = Put(status, key, result)
          /\ IF result.s # ""
             THEN /\ error' = "Failed to upload: " \o result.s \o "."
                  /\ pc' = catch
             ELSE /\ error' = error
                  /\ pc' = next
     \/ \E message \in UploadErrors :
          /\ error' = message
          /\ pc' = catch
          /\ status' = status
  /\ trace' = Append(trace, Event("cleanup", here))
  /\ UNCHANGED <<phase, states, warnings, store, cache, failed, summary, shown,
                 env, run, child, arg, ret>>

\* lines 73-81
CleanupUploadReports ==
  UploadStep("uploadReports", "sizeUpload", "results.zip", "glob", "reportsCatch")

\* WarnStep, a plausible slip: the catch block shows the warning and throws
\* the error again, which ends the process
WarnStepRethrow(here, next) ==
  /\ phase = "cleanup"
  /\ pc = here
  /\ warnings' = warnings + 1
  /\ shown' = shown + 1
  /\ pc' = "crashed"
  /\ trace' = Append(trace, Event("cleanup", here))
  /\ UNCHANGED <<phase, states, status, error, store, cache, failed, summary,
                 env, run, child, arg, ret>>

\* WarnStep, a plausible slip: one try block around all the groups, so the
\* catch block is followed by the final log
WarnStepAbort(here, next) ==
  /\ phase = "cleanup"
  /\ pc = here
  /\ warnings' = warnings + 1
  /\ shown' = shown + 1
  /\ pc' = "log"
  /\ trace' = Append(trace, Event("cleanup", here))
  /\ UNCHANGED <<phase, states, status, error, store, cache, failed, summary,
                 env, run, child, arg, ret>>

\* utils.showWarning(text) in the catch block of a group, which then goes on at next
WarnStep(here, next) ==
  /\ phase = "cleanup"
  /\ pc = here
  /\ warnings' = warnings + 1
  /\ shown' = shown + 1
  /\ pc' = next
  /\ trace' = Append(trace, Event("cleanup", here))
  /\ UNCHANGED <<phase, states, status, error, store, cache, failed, summary,
                 env, run, child, arg, ret>>

\* lines 87-90
CleanupReportsCatch == WarnStep("reportsCatch", "glob")

\* lines 96-99 and 134-136: the actual output files found
CleanupGlob ==
  /\ phase = "cleanup"
  /\ pc = "glob"
  /\ \/ \E found \in {0, 1} :
          /\ pc' = IF found > 0 THEN "actualZip" ELSE AfterActual(states, env.ref)
          /\ error' = error
     \/ \E message \in UploadErrors :
          /\ error' = message
          /\ pc' = "actualCatch"
  /\ trace' = Append(trace, Event("cleanup", "glob"))
  /\ UNCHANGED <<phase, states, status, warnings, store, cache, failed, summary,
                 shown, env, run, child, arg, ret>>

\* lines 102-107
CleanupActualZip ==
  ExecStep("cleanup", "actualZip", WithError("Unable to zip actual output files"),
           "actualZip", "lsActual", "actualCatch")

\* lines 109-113
CleanupLsActual ==
  ExecStep("cleanup", "lsActual", WithError("Unable to list working directory"),
           "", "rmActual", "actualCatch")

\* lines 116-120
CleanupRmActual ==
  ExecStep("cleanup", "rmActual", WithError("Unable to remove actual files"),
           "", "uploadActual", "actualCatch")

\* lines 122-132 and 151-159
CleanupUploadActual ==
  UploadStep("uploadActual", "actualUpload", "actual.zip",
             AfterActual(states, env.ref), "actualCatch")

\* lines 142-145
CleanupActualCatch == WarnStep("actualCatch", AfterActual(states, env.ref))

\* the status codes the source-hosting API answers with
ResponseCodes == {200, 404}

\* how the octokit requests may fail
RequestErrors == {"Not Found"}

\* lines 160-168 and 188-191
CleanupGetRelease ==
  /\ phase = "cleanup"
  /\ pc = "getRelease"
  /\ \/ \E code \in ResponseCodes :
          /\ status' = Put(status, "release", Num(code))
          /\ IF code = 200
             THEN /\ pc' = "updateRelease"
                  /\ error' = error
             ELSE /\ pc' = "releaseCatch"
                  /\ error' = "Unable to find release: " \o TemplateStr(Get(states, "version"))
     \/ \E message \in RequestErrors :
          /\ error' = message
          /\ pc' = "releaseCatch"
          /\ status' = status
  /\ trace' = Append(trace, Event("cleanup", "getRelease"))
  /\ UNCHANGED <<phase, states, warnings, store, cache, failed, summary, shown,
                 env, run, child, arg, ret>>

\* lines 171-186 and 197-206
CleanupUpdateRelease ==
  /\ phase = "cleanup"
  /\ pc = "updateRelease"
  /\ \/ \E code \in ResponseCodes :
          /\ status' = Put(status, "release", Num(code))
          /\ IF code = 200
             THEN /\ pc' = AfterRelease(states)
                  /\ error' = error
             ELSE /\ pc' = "releaseCatch"
                  /\ error' = "Unable to update release: " \o TemplateStr(Get(states, "version"))
     \/ \E message \in RequestErrors :
          /\ error' = message
          /\ pc' = "releaseCatch"
          /\ status' = status
  /\ trace' = Append(trace, Event("cleanup", "updateRelease"))
  /\ UNCHANGED <<phase, states, warnings, store, cache, failed, summary, shown,
                 env, run, child, arg, ret>>

\* lines 201-204
CleanupReleaseCatch == WarnStep("releaseCatch", AfterRelease(states))

\* lines 217-219: cache.saveCache([testDir], states.testKey) stores the key
\* and returns an id, or throws; it throws when the cache holds the key already
CleanupSaveCache ==
  /\ phase = "cleanup"
  /\ pc = "saveCache"
  /\ LET key == TemplateStr(Get(states, "testKey"))
         held == \E i \in 1..Len(cache) : cache[i] = key
     IN \/ /\ ~held
           /\ cache' = Append(cache, key)
           /\ status' = Put(status, "testCache", Num(Len(cache) + 1))
           /\ pc' = "log"
           /\ error' = error
        \/ \E message \in CacheErrors \cup {m \in {"Unable to reserve cache with key " \o key} : held} :
             /\ error' = message
             /\ pc' = "cacheCatch"
             /\ UNCHANGED <<cache, status>>
  /\ trace' = Append(trace, Event("cleanup", "saveCache"))
  /\ UNCHANGED <<phase, states, warnings, store, failed, summary, shown, env, run,
                 child, arg, ret>>

\* lines 230-233
CleanupCacheCatch == WarnStep("cacheCatch", "log")

\* lines 235-242
CleanupLog ==
  /\ phase = "cleanup"
  /\ pc = "log"
  /\ summary' = [summary EXCEPT !.cleanup = CheckWarnings(warnings, "\"Post Test Project\"")]
  /\ pc' = "end"
  /\ trace' = Append(trace, Event("cleanup", "checkWarnings"))
  /\ UNCHANGED <<phase, states, status, warnings, error, store, cache, failed,
                 shown, env, run, child, arg, ret>>

Cleanup ==
  \/ StartCleanup \/ SkipVerify \/ CleanupRestore \/ CleanupReports \/ CleanupSite
  \/ CleanupLsSite \/ CleanupSiteZip \/ CleanupLsReports \/ CleanupUploadReports
  \/ CleanupReportsCatch \/ CleanupGlob \/ CleanupActualZip \/ CleanupLsActual
  \/ CleanupRmActual \/ CleanupUploadActual \/ CleanupActualCatch
  \/ CleanupGetRelease \/ CleanupUpdateRelease \/ CleanupReleaseCatch
  \/ CleanupSaveCache \/ CleanupCacheCatch \/ CleanupLog

\* the next workflow run starts: a new store and new inputs, the same cache
\* service; arg keeps the commit hash of the run that ended and whether its
\* cleanup saved the cache (status.testCache is the id saveCache returned)
NewRun ==
  /\ phase = "cleanup"
  /\ pc = "end"
  /\ run < MaxRuns
  /\ run' = run + 1
  /\ env' \in Envs
  /\ phase' = "setup"
  /\ pc' = "parse"
  /\ states' = <<>>
  /\ status' = <<>>
  /\ warnings' = 0
  /\ error' = ""
  /\ store' = <<>>
  /\ failed' = NoFailure
  /\ summary' = NoFailure
  /\ trace' = <<>>
  /\ shown' = 0
  /\ child' = NoChild
  /\ arg' = [hash |-> env.hash, saved |-> Has(status, "testCache")]
  /\ UNCHANGED <<cache, ret>>

----------------------------------------------------------------------------
(* saveStates in one process, restoreStates in the next: the helper pair   *)
(* applied to mappings of strings drawn from TestKeys and TestValues.      *)

TestKeys == {"a", "q\"b", "x,y", "keys"}
TestValues == {"", "false", "v\\w"}

\* the objects with at most n entries, keys in ks, string values in vs
RECURSIVE ObjectsUpTo(_, _, _)
ObjectsUpTo(n, ks, vs) ==
  IF n = 0 THEN {<<>>}
  ELSE LET smaller == ObjectsUpTo(n - 1, ks, vs)
       IN smaller \cup
          {Append(o, [k |-> k, v |-> Str(v)]) :
             o \in {x \in smaller : Len(x) = n - 1}, k \in ks, v \in vs}

DistinctKeys(o) == \A i, j \in 1..Len(o) : o[i].k = o[j].k => i = j

Mappings == {o \in ObjectsUpTo(MaxEntries, TestKeys, TestValues) : DistinctKeys(o)}

\* what an earlier phase of the same run may have left in the store
EarlierStores == {SaveStates(<<>>, o) : o \in {m \in Mappings : Len(m) <= 1}}

NoEnv == [ref |-> "", project |-> "", hash |-> "", owner |-> "", repo |-> ""]

InitStore ==
  /\ arg \in Mappings
  /\ store \in {<<>>} \cup EarlierStores
  /\ phase = "first"
  /\ pc = "save"
  /\ states = arg
  /\ status = <<>>
  /\ warnings = 0
  /\ error = ""
  /\ cache = <<>>
  /\ failed = NoFailure
  /\ summary = NoFailure
  /\ trace = <<>>
  /\ shown = 0
  /\ env = NoEnv
  /\ run = 1
  /\ child = NoChild
  /\ ret = [ok |-> TRUE, val |-> <<>>, read |-> <<>>]

\* the first process calls saveStates(M) and ends; the next one starts with states = {}
StoreSave ==
  /\ pc = "save"
  /\ store' = SaveStates(store, states)
  /\ states' = <<>>
  /\ phase' = "next"
  /\ pc' = "restore"
  /\ UNCHANGED <<status, warnings, error, cache, failed, summary, trace, shown,
                 env, run, child, arg, ret>>

\* the next process calls restoreStates(states)
StoreRestore ==
  /\ pc = "restore"
  /\ ret' = RestoreStates(store, states)
  /\ states' = ret'.val
  /\ pc' = "restored"
  /\ UNCHANGED <<phase, status, warnings, error, store, cache, failed, summary,
                 trace, shown, env, run, child, arg>>

\* the first process calls restoreStates(M) before anything is saved
StoreRestoreFirst ==
  /\ pc = "save"
  /\ ret' = RestoreStates(store, states)
  /\ states' = ret'.val
  /\ pc' = "restoredFirst"
  /\ UNCHANGED <<phase, status, warnings, error, store, cache, failed, summary,
                 trace, shown, env, run, child, arg>>

NextStore == StoreSave \/ StoreRestore \/ StoreRestoreFirst

SpecStore == InitStore /\ [][NextStore]_vars

\* a and b have the same keys and the same value under each key
SameMapping(a, b) ==
  /\ {a[i].k : i \in 1..Len(a)} = {b[i].k : i \in 1..Len(b)}
  /\ \A i \in 1..Len(a) : Get(b, a[i].k) = a[i].v
  /\ DistinctKeys(a) /\ DistinctKeys(b)

\* C1 as stated: for every mapping M of strings, restoreStates({}) after
\* saveStates(M) returns exactly the keys and values of M.
C1_RoundTripAnyMapping ==
  pc = "restored" => ret.ok /\ SameMapping(ret.val, arg)

\* C1 amended: for every mapping M of strings that does not use the name of
\* the index entry, "keys", as a key, restoreStates({}) in the next process
\* returns exactly the keys of M, each with exactly its value in M.
C1_RoundTrip ==
  (pc = "restored" /\ ~Has(arg, "keys")) => ret.ok /\ SameMapping(ret.val, arg)

\* a mapping of two entries, one with a quote in its key and one with an
\* empty value, has gone through both processes over a store that held
\* another key before
C1_Witness ==
  /\ pc = "restored"
  /\ Len(arg) = 2
  /\ Has(arg, "q\"b")
  /\ ~Has(arg, "keys")
  /\ \E i \in 1..Len(arg) : arg[i].v = Str("")
  /\ \E i \in 1..Len(store) : store[i].k \notin {"keys"} \cup {arg[j].k : j \in 1..Len(arg)}
  /\ SameMapping(ret.val, arg)

\* C16: restoreStates(M) called while the store has no index entry "keys"
\* does not throw, passes no name but "keys" to getState, and returns M as
\* it was given (the empty mapping when M is empty).
C16_RestoreWithoutIndex ==
  (pc = "restoredFirst" /\ ~Has(store, "keys"))
    => /\ ret.ok
       /\ ret.read = <<"keys">>
       /\ ret.val = arg
       /\ states = arg
       /\ arg = <<>> => ret.val = <<>>

\* the first process restored over an empty store, given a mapping of two
\* entries of which one is named "keys"
C16_Witness ==
  /\ pc = "restoredFirst"
  /\ store = <<>>
  /\ ret.ok
  /\ ret.val = arg
  /\ Len(arg) = 2
  /\ Has(arg, "keys")

----------------------------------------------------------------------------
(* checkExec applied to settings with and without an error message *)

TestErrors == {"Failed cloning", "Unable to list main directory", ""}

\* the settings objects: title, param, chdir and error each given or not
TestSettings ==
  {title \o param \o chdir \o err :
     title \in {<<>>, <<[k |-> "title", v |-> Str("Listing")]>>},
     param \in {<<>>, <<[k |-> "param", v |-> Str("-m")]>>},
     chdir \in {<<>>, <<[k |-> "chdir", v |-> Str("project-main/")]>>},
     err \in {<<>>} \cup {<<[k |-> "error", v |-> Str(e)]>> : e \in TestErrors}}

InitExec ==
  /\ arg \in TestSettings
  /\ phase = "first"
  /\ pc = "call"
  /\ states = <<>>
  /\ status = <<>>
  /\ warnings = 0
  /\ error = ""
  /\ store = <<>>
  /\ cache = <<>>
  /\ failed = NoFailure
  /\ summary = NoFailure
  /\ trace = <<>>
  /\ shown = 0
  /\ env = NoEnv
  /\ run = 1
  /\ child = NoChild
  /\ ret = [thrown |-> FALSE, message |-> "", value |-> 0]

\* checkExec(command, arg) is called and the child ends
ExecCall ==
  /\ pc = "call"
  /\ \E outcome \in ExecOutcomes :
       /\ child' = outcome
       /\ ret' = CheckExec(arg, outcome)
  /\ pc' = "called"
  /\ UNCHANGED <<phase, states, status, warnings, error, store, cache, failed,
                 summary, trace, shown, env, run, arg>>

NextExec == ExecCall

SpecExec == InitExec /\ [][NextExec]_vars

\* C7: without settings.error, whatever the exit code of the child,
\* checkExec throws nothing and returns that exit code.
C7_NoMessageNeverThrows ==
  (pc = "called" /\ ~Has(arg, "error") /\ ~child.rejected)
    => (~ret.thrown /\ ret.value = child.code)

\* checkExec without settings.error has returned the non-zero code of the child
C7_Witness ==
  /\ pc = "called"
  /\ ~Has(arg, "error")
  /\ ~child.rejected
  /\ child.code = MaxExit
  /\ child.code # 0
  /\ ~ret.thrown
  /\ ret.value = MaxExit

\* C8: with settings.error, checkExec throws exactly when the exit code of
\* the child is not 0, the message of the Error contains settings.error and
\* the decimal exit code, and with exit code 0 it returns 0.
C8_MessageThrowsIffNonZero ==
  (pc = "called" /\ Has(arg, "error") /\ ~child.rejected)
    => /\ ret.thrown <=> child.code # 0
       /\ ret.thrown => /\ Includes(ret.message, Get(arg, "error").s)
                        /\ Includes(ret.message, IntToStr(child.code))
       /\ child.code = 0 => ret.value = 0

\* checkExec with a message has thrown on a non-zero exit code
C8_Witness ==
  /\ pc = "called"
  /\ Get(arg, "error") = Str("Failed cloning")
  /\ ~child.rejected
  /\ child.code = 1
  /\ ret.thrown
  /\ ret.message = "Failed cloning (1)."

----------------------------------------------------------------------------
(* showWarning and checkWarnings called in any order by one process *)

\* the phase names the three processes pass to checkWarnings
PhaseLabel(p) ==
  CASE p = "setup" -> "\"Pre Test Project\""
    [] p = "verify" -> "\"Test Project\""
    [] OTHER -> "\"Post Test Project\""

NoCheck == [again |-> FALSE, before |-> "", count |-> 0]

InitWarn ==
  /\ phase \in {"setup", "verify", "cleanup"}
  /\ pc = "start"
  /\ warnings = 0
  /\ shown = 0
  /\ summary = NoFailure
  /\ ret = NoCheck
  /\ arg = NoArg
  /\ states = <<>>
  /\ status = <<>>
  /\ error = ""
  /\ store = <<>>
  /\ cache = <<>>
  /\ failed = NoFailure
  /\ trace = <<>>
  /\ env = NoEnv
  /\ run = 1
  /\ child = NoChild

\* utils.showWarning(text)
WarnShow ==
  /\ warnings < MaxWarnings
  /\ warnings' = warnings + 1
  /\ shown' = shown + 1
  /\ pc' = "shown"
  /\ UNCHANGED <<phase, states, status, error, store, cache, failed, summary,
                 trace, env, run, child, arg, ret>>

\* utils.checkWarnings(phase): ret keeps the count it was called with, the
\* summary of the call before it, and whether that call was the step before
WarnCheck ==
  /\ summary' = [summary EXCEPT ![phase] = CheckWarnings(warnings, PhaseLabel(phase))]
  /\ ret' = [again |-> pc = "checked", before |-> summary[phase], count |-> warnings]
  /\ pc' = "checked"
  /\ UNCHANGED <<phase, states, status, warnings, error, store, cache, failed,
                 trace, shown, env, run, child, arg>>

NextWarn == WarnShow \/ WarnCheck

SpecWarn == InitWarn /\ [][NextWarn]_vars

\* C17: checkWarnings emits nothing for a count of 0, "There was 1 warning
\* in the <phase> phase ..." for 1 and "There were N warnings in the <phase>
\* phase ..." for N > 1; it leaves the count as it was; called again with no
\* showWarning in between it emits the same text.
C17_SummaryByCount ==
  pc = "checked"
    => /\ warnings = ret.count
       /\ warnings = 0 => summary[phase] = ""
       /\ warnings = 1
            => summary[phase] = "There was 1 warning in the " \o PhaseLabel(phase)
                 \o " phase. View the run log for details."
       /\ warnings > 1
            => summary[phase] = "There were " \o IntToStr(warnings) \o " warnings in the "
                 \o PhaseLabel(phase) \o " phase. View the run log for details."
       /\ ret.again => summary[phase] = ret.before

\* checkWarnings was called twice in a row after one warning of the verify
\* process, and emitted the text for one warning both times
C17_Witness ==
  /\ pc = "checked"
  /\ phase = "verify"
  /\ ret.again
  /\ warnings = 1
  /\ ret.before = "There was 1 warning in the \"Test Project\" phase. View the run log for details."
  /\ summary.verify = ret.before

----------------------------------------------------------------------------
(* Properties of the workflow run *)

InTrace(e) == \E i \in 1..Len(trace) : trace[i] = e

Count(e) == Cardinality({i \in 1..Len(trace) : trace[i] = e})

\* e and f are both in the trace, every e before every f
Before(e, f) ==
  /\ InTrace(e)
  /\ InTrace(f)
  /\ \A i, j \in 1..Len(trace) : (trace[i] = e /\ trace[j] = f) => i < j

\* the step e of the running setup or verify process threw: it is the last
\* step before the catch block
Threw(e) ==
  \E i \in 1..Len(trace) :
    /\ trace[i] = e
    /\ IF i = Len(trace) THEN pc = "catch" ELSE trace[i + 1] = Event(phase, "setFailed")

\* C2 as stated: the count checkWarnings reads at the end of a phase is the
\* number of showWarning calls made so far in the whole run, so the summary
\* of each phase is the one of that number.
C2_CumulativeCount ==
  /\ (phase = "setup" /\ pc = "end")
       => summary.setup = CheckWarnings(shown, "\"Pre Test Project\"")
  /\ (phase = "verify" /\ pc = "end")
       => summary.verify = CheckWarnings(shown, "\"Test Project\"")
  /\ (phase = "cleanup" /\ pc = "end")
       => summary.cleanup = CheckWarnings(shown, "\"Post Test Project\"")

\* C3 as stated: a setup or verify process that ends marked failed has run
\* saveStates and checkWarnings.
C3_FailedPhaseStillSaves ==
  (phase \in {"setup", "verify"} /\ pc = "end" /\ failed[phase] # "")
    => /\ InTrace(Event(phase, "saveStates"))
       /\ InTrace(Event(phase, "checkWarnings"))

\* the verification tests of the running verify process exited non-zero
TestsFailed == Has(status, "verify") /\ Get(status, "verify").n # 0

\* C4: when the verification tests exit non-zero, states.passed is false
\* before the debug tests run, the debug tests run before setFailed, verify
\* ends marked failed with passed = "false" in the store, and the cleanup
\* that follows enters its report group.
C4_FailedTests ==
  /\ (phase = "verify" /\ TestsFailed)
       => /\ Get(states, "passed") = Bool(FALSE)
          /\ pc \in {"debug", "catch", "finally", "end"}
          /\ pc = "debug" => (~InTrace("verify:debug") /\ failed.verify = "")
          /\ pc # "debug" => Before("verify:tests", "verify:debug")
          /\ pc = "catch" => failed.verify = ""
          /\ pc \in {"finally", "end"}
               => (failed.verify # "" /\ Before("verify:debug", "verify:setFailed"))
          /\ pc = "end" => GetState(store, "passed") = "false"
  /\ (phase = "cleanup" /\ pc # "restore" /\ GetState(store, "passed") = "false")
       => (pc = "reports" \/ InTrace("cleanup:reports"))

\* the tests failed, verify was marked failed after the debug tests, and the
\* cleanup that followed generated the reports
C4_Witness ==
  /\ phase = "cleanup"
  /\ GetState(store, "passed") = "false"
  /\ failed.verify = "Unable to verify project. One or more Project 1 verification tests of v1.0.0 failed."
  /\ InTrace("cleanup:reports")
  /\ InTrace("cleanup:uploadReports")

\* C5: once the cache has answered in setup: with the requested key neither
\* the pull block nor the clone runs; with another key the pull block runs
\* (git status, then git pull --ff-only unless git status failed) and the
\* clone does not; with nothing the clone runs and the pull block does not.
C5_CheckoutByRestoreResult ==
  (phase = "setup" /\ Has(status, "testCache"))
    => LET found == Get(status, "testCache")
           testKey == Get(states, "testKey")
           pullBlock == pc \in {"gitStatus", "gitPull"} \/ InTrace("setup:gitStatus")
                          \/ InTrace("setup:gitPull")
           clone == pc \in {"testClone", "testLs"} \/ InTrace("setup:testClone")
       IN /\ found = testKey => (~pullBlock /\ ~clone)
          /\ (~IsUndefined(found) /\ found # testKey)
               => /\ ~clone
                  /\ pc = "gitStatus" \/ InTrace("setup:gitStatus")
                  /\ InTrace("setup:gitStatus")
                       => \/ pc = "gitPull"
                          \/ InTrace("setup:gitPull")
                          \/ Threw("setup:gitStatus")
          /\ IsUndefined(found)
               => (~pullBlock /\ (pc = "testClone" \/ InTrace("setup:testClone")))

\* an older key was restored, the pull ran, no clone ran and setup ended well
C5_Witness ==
  /\ phase = "setup"
  /\ pc = "end"
  /\ Get(states, "testKey") = Str("project-tests-abc123")
  /\ Get(status, "testCache") = Str("project-tests-xyz999")
  /\ Before("setup:gitStatus", "setup:gitPull")
  /\ ~InTrace("setup:testClone")
  /\ failed.setup = ""

\* the version of the run does not match and the project input is not valid
NoProject == ~MatchVersion(LastToken(env.ref)).ok /\ env.project \notin ValidProjects

\* C6: when the version does not match v[1-4].N.N and the project input is
\* not one of 1, 2, 3a, 3b, 4, setup runs no clone, no commit listing and no
\* cache lookup, and it ends marked failed.
C6_NoProjectFailsBeforeClone ==
  (phase = "setup" /\ NoProject)
    => /\ pc \in {"parse", "catch", "finally", "end"}
       /\ \A i \in 1..Len(trace) :
            trace[i] \in {"setup:parse", "setup:setFailed", "setup:checkWarnings"}
       /\ pc \in {"finally", "end"} => failed.setup # ""

\* setup of a run tagged v9.9 with project input 5 has ended, marked failed
C6_Witness ==
  /\ phase = "setup"
  /\ pc = "end"
  /\ env.ref = "refs/tags/v9.9"
  /\ env.project = "5"
  /\ trace = <<"setup:parse", "setup:setFailed", "setup:checkWarnings">>
  /\ Includes(failed.setup, "Unable to determine project from v9.9 or user input.")

\* C9 as stated: an error thrown by cache.restoreCache in setup or by
\* cache.saveCache in cleanup is shown as a warning, the phase is not marked
\* failed, setup goes on to clone the tests and cleanup to its summary.
C9_CacheErrorsDegrade ==
  /\ (phase = "setup" /\ pc = "end" /\ InTrace("setup:restoreCache")
        /\ ~Has(status, "testCache"))
       => (failed.setup = "" /\ warnings > 0 /\ InTrace("setup:testClone"))
  /\ (phase = "cleanup" /\ pc = "end" /\ InTrace("cleanup:saveCache")
        /\ ~Has(status, "testCache"))
       => (failed.cleanup = "" /\ warnings > 0 /\ InTrace("cleanup:checkWarnings"))

\* the state restored by the running cleanup shows an exact-key hit
ExactHit == Has(states, "testKey") /\ Has(states, "testCache")
              /\ Get(states, "testKey") = Get(states, "testCache")

\* C10: a cleanup whose restored state has testCache equal to testKey never
\* calls cache.saveCache and shows no warning for the cache; one whose state
\* has testKey, with testCache absent or different, calls it exactly once,
\* with testKey.
C10_SaveOnlyWithoutExactHit ==
  (phase = "cleanup" /\ pc # "restore")
    => /\ ExactHit
            => /\ pc \notin {"saveCache", "cacheCatch"}
               /\ ~InTrace("cleanup:saveCache")
               /\ ~InTrace("cleanup:cacheCatch")
       /\ (Has(states, "testKey") /\ ~ExactHit)
            => /\ Count("cleanup:saveCache") <= 1
               /\ pc \in {"log", "end", "cacheCatch"} => Count("cleanup:saveCache") = 1
               /\ Has(status, "testCache")
                    => cache[Len(cache)] = Get(states, "testKey").s
       /\ ~Has(states, "testKey") => ~InTrace("cleanup:saveCache")

\* cleanup has ended after an exact-key hit: no save, no warning
C10_Witness ==
  /\ phase = "cleanup"
  /\ pc = "end"
  /\ ExactHit
  /\ Get(states, "testKey") = Str("project-tests-xyz999")
  /\ ~InTrace("cleanup:saveCache")
  /\ warnings = 0
  /\ summary.cleanup = ""

\* the catch blocks of the four groups of cleanup
GroupCatches ==
  {"cleanup:reportsCatch", "cleanup:actualCatch", "cleanup:releaseCatch",
   "cleanup:cacheCatch"}

\* number of catch blocks the running cleanup has gone through
GroupFailures == Cardinality({i \in 1..Len(trace) : trace[i] \in GroupCatches})

\* C11: in cleanup a failure inside a group is shown as exactly one warning
\* (the count is the number of groups that failed, each at most once), the
\* run is never marked failed, and every later group that the restored state
\* asks for is still attempted.
C11_GroupsIsolated ==
  phase = "cleanup"
    => /\ warnings = GroupFailures
       /\ \A c \in GroupCatches : Count(c) <= 1
       /\ failed.cleanup = ""
       /\ pc # "crashed"
       /\ pc = "end"
            => /\ ReportsWanted(states)
                    => (InTrace("cleanup:reports") /\ InTrace("cleanup:glob"))
               /\ ReleaseWanted(states, env.ref) => InTrace("cleanup:getRelease")
               /\ SaveWanted(states) => InTrace("cleanup:saveCache")
               /\ InTrace("cleanup:checkWarnings")

\* the four groups of one cleanup all failed: four warnings, all groups
\* attempted, the run not marked failed
C11_Witness ==
  /\ phase = "cleanup"
  /\ pc = "end"
  /\ warnings = 4
  /\ \A c \in GroupCatches : InTrace(c)
  /\ Before("cleanup:reportsCatch", "cleanup:glob")
  /\ Before("cleanup:actualCatch", "cleanup:getRelease")
  /\ Before("cleanup:releaseCatch", "cleanup:saveCache")
  /\ failed.cleanup = ""
  /\ summary.cleanup = "There were 4 warnings in the \"Post Test Project\" phase. View the run log for details."

\* C12 as stated: whenever verify is marked failed, the debug run came before
\* the mark. Violated: a step with an error message before the tests (java,
\* javac, mvn, the compiles) that exits non-zero is caught and marked failed
\* with no debug run.
C12_FailedOnlyAfterDebug ==
  (phase = "verify" /\ failed.verify # "")
    => Before("verify:debug", "verify:setFailed")

\* C12, amended: when verify is marked failed after its verification tests
\* returned an exit code, the debug run came before the mark; when it is marked
\* failed with no debug run, the tests recorded no outcome (an earlier step
\* threw, or the test command could not be started).
C12_TestFailureAfterDebug ==
  (phase = "verify" /\ failed.verify # "")
    => /\ Has(status, "verify") => Before("verify:debug", "verify:setFailed")
       /\ ~InTrace("verify:debug")
            => (~Has(status, "verify") /\ ~Has(states, "passed"))

\* verify ended marked failed with the message of the failed tests, after the
\* debug run
C12_Witness ==
  /\ phase = "verify"
  /\ pc = "end"
  /\ Has(status, "verify")
  /\ Get(status, "verify") # Num(0)
  /\ Before("verify:tests", "verify:debug")
  /\ Before("verify:debug", "verify:setFailed")
  /\ failed.verify = "Unable to verify project. " \o TemplateStr(Get(states, "message"))

\* the keys setup writes into states (setup.js 23-25, 41-64, 108, 122)
SetupKeys ==
  {"owner", "mainRepo", "testRepo", "project", "version", "tester", "testKey",
   "testCache"}

\* the cache as setup found it: cleanup appends one key when its save succeeds
CacheAtSetup ==
  IF phase = "cleanup" /\ Has(status, "testCache")
  THEN SubSeq(cache, 1, Len(cache) - 1)
  ELSE cache

\* what setup computed for key k in this run, as the text saveState writes
SetupText(k) ==
  LET version == LastToken(env.ref)
      project == ResolveProject(version, env.project)
      testKey == testDir \o "-" \o env.hash
  IN CASE k = "owner" -> env.owner
       [] k = "mainRepo" -> env.owner \o "/" \o env.repo
       [] k = "testRepo" -> env.owner \o "/" \o testDir
       [] k = "project" -> ToCommandValue(project)
       [] k = "version" -> version
       [] k = "tester" -> "Project" \o TemplateStr(project) \o "Test*"
       [] k = "testKey" -> testKey
       [] OTHER -> ToCommandValue(RestoreCache(CacheAtSetup, testKey, <<testDir \o "-">>))

\* C13: after a setup that succeeded, every key setup wrote is in the store
\* at the end of verify and at the end of cleanup with the text setup saved,
\* and is in the states cleanup restores with that text, whichever way verify
\* ended; the only other keys cleanup sees are passed and message.
C13_SetupStateReachesCleanup ==
  (phase \in {"verify", "cleanup"} /\ failed.setup = "")
    => /\ pc = "end"
            => \A k \in SetupKeys : Has(store, k) /\ GetState(store, k) = SetupText(k)
       /\ (phase = "cleanup" /\ pc # "restore")
            => /\ \A k \in SetupKeys :
                    Has(states, k) /\ Get(states, k) = Str(GetState(store, k))
               /\ \A i \in 1..Len(states) :
                    states[i].k \in SetupKeys \cup {"passed", "message"}
               /\ failed.verify = "" => Has(states, "passed")

\* cleanup restored the eight keys of setup after a verify that failed before
\* its tests (no passed), with testCache saved as a cache hit
C13_Witness ==
  /\ phase = "cleanup"
  /\ pc = "end"
  /\ failed.setup = ""
  /\ failed.verify # ""
  /\ ~Has(states, "passed")
  /\ \A k \in SetupKeys : Has(states, k)
  /\ Get(states, "project") = Str("1")
  /\ Get(states, "testCache") = Get(states, "testKey")

\* the cache restore of this run's setup returned nothing
ColdCache ==
  IsUndefined(RestoreCache(CacheAtSetup, testDir \o "-" \o env.hash, <<testDir \o "-">>))

\* C14: after a setup that succeeded with a cache restore that returned
\* nothing, the states restored by verify and by cleanup do not have the key
\* testCache, and no restored key has the empty string as its value.
C14_NoValueMeansAbsent ==
  (phase \in {"verify", "cleanup"} /\ pc # "restore" /\ failed.setup = "" /\ ColdCache)
    => /\ ~Has(states, "testCache")
       /\ \A i \in 1..Len(states) : states[i].v # Str("")

\* setup ended without failing after a cache restore that returned nothing
ColdSetup ==
  /\ phase = "setup"
  /\ pc = "end"
  /\ failed.setup = ""
  /\ Has(states, "testCache")
  /\ IsUndefined(Get(states, "testCache"))

\* C15 as stated: a setup whose only unusual event is a cold cache ends with
\* a warning count of 0 and no summary. Violated: setup shows the warning
\* "Unable to restore cache" and its summary reports one warning.
C15_ColdCacheNoWarning == ColdSetup => (warnings = 0 /\ summary.setup = "")

\* C15, amended: a cold cache is not fatal and is counted as one warning.
\* Once the restore has answered, the count of setup is 1 when it returned
\* nothing and 0 otherwise; a setup that ends after a cold cache emits the
\* summary for one warning, and the cold cache does not mark it failed.
C15_ColdCacheOneWarning ==
  (phase = "setup" /\ Has(states, "testCache"))
    => /\ warnings = (IF IsUndefined(Get(states, "testCache")) THEN 1 ELSE 0)
       /\ pc = "end"
            => summary.setup = CheckWarnings(warnings, "\"Pre Test Project\"")
       /\ ColdSetup
            => summary.setup = "There was 1 warning in the \"Pre Test Project\" phase. View the run log for details."
       /\ (failed.setup # "" /\ pc = "end")
            => (Threw("setup:testClone") \/ Threw("setup:testLs") \/ Threw("setup:dirLs")
                  \/ Threw("setup:gitStatus") \/ Threw("setup:gitPull"))

\* a setup that succeeded on an empty cache: one warning, the clone of the
\* tests, the states saved
C15_Witness ==
  /\ ColdSetup
  /\ warnings = 1
  /\ shown = 1
  /\ InTrace("setup:testClone")
  /\ InTrace("setup:saveStates")

\* C18 as stated: after a verify that ended marked failed, cleanup attempts
\* the reports, the group of the actual outputs and the cache save.
\* Violated: when verify failed before its tests, passed is not in the
\* states and both reporting groups are skipped; when setup restored the
\* exact key, the save is skipped.
C18_FailedVerifyStillReports ==
  (phase = "cleanup" /\ pc = "end" /\ failed.verify # "")
    => /\ InTrace("cleanup:reports")
       /\ InTrace("cleanup:glob")
       /\ InTrace("cleanup:saveCache")

\* C18, amended: after a verify that ended marked failed, cleanup attempts
\* the reports and the group of the actual outputs exactly when the tests had
\* recorded their failure (passed is in the states, as "false"), and attempts
\* the cache save exactly when setup had not restored the exact key.
C18_FailedTestsStillReport ==
  (phase = "cleanup" /\ pc = "end" /\ failed.verify # "")
    => /\ Has(states, "passed")
            => /\ Get(states, "passed") = Str("false")
               /\ InTrace("cleanup:reports")
               /\ InTrace("cleanup:glob")
       /\ ~Has(states, "passed")
            => (~InTrace("cleanup:reports") /\ ~InTrace("cleanup:glob"))
       /\ InTrace("cleanup:saveCache") <=> ~ExactHit

\* cleanup ended after failed tests on a release tag without an exact hit:
\* the reports, the actual outputs, the release and the save were attempted
C18_Witness ==
  /\ phase = "cleanup"
  /\ pc = "end"
  /\ failed.verify # ""
  /\ Get(states, "passed") = Str("false")
  /\ ~ExactHit
  /\ Before("cleanup:reports", "cleanup:glob")
  /\ Before("cleanup:glob", "cleanup:getRelease")
  /\ Before("cleanup:getRelease", "cleanup:saveCache")
  /\ warnings = 0

\* the steps of the report group and of the group of the actual outputs
ReportSteps ==
  {"reports", "site", "lsSite", "siteZip", "lsReports", "uploadReports",
   "reportsCatch", "glob", "actualZip", "lsActual", "rmActual", "uploadActual",
   "actualCatch"}

\* C23: cleanup enters its report group and its group of the actual outputs
\* exactly when the restored states have the key passed with a value other
\* than "true": with passed = "true" or passed absent no step of the two
\* groups runs; with passed = "false" both groups have run when cleanup ends.
C23_ReportsIffRecordedFailure ==
  (phase = "cleanup" /\ pc # "restore")
    => /\ (~Has(states, "passed") \/ Get(states, "passed") = Str("true"))
            => /\ pc \notin ReportSteps
               /\ \A step \in ReportSteps : ~InTrace(Event("cleanup", step))
       /\ (Has(states, "passed") /\ Get(states, "passed") # Str("true"))
            => /\ Get(states, "passed") = Str("false")
               /\ pc = "reports" \/ InTrace("cleanup:reports")
               /\ pc = "end" => (InTrace("cleanup:reports") /\ InTrace("cleanup:glob"))

\* cleanup ended after a verify that never recorded passed: no step of the
\* two groups ran, the cache save did
C23_Witness ==
  /\ phase = "cleanup"
  /\ pc = "end"
  /\ failed.setup = ""
  /\ Has(states, "testKey")
  /\ ~Has(states, "passed")
  /\ \A step \in ReportSteps : ~InTrace(Event("cleanup", step))
  /\ InTrace("cleanup:saveCache")

\* C26: when verify has ended with passed = true in its states, it is not
\* marked failed and its debug run did not execute; the debug run executes at
\* most once in a verify, and only after the verification tests returned a
\* non-zero exit code.
C26_PassedMeansNoDebug ==
  phase = "verify"
    => /\ (pc = "end" /\ Get(states, "passed") = Bool(TRUE))
            => /\ failed.verify = ""
               /\ ~InTrace("verify:debug")
               /\ ~InTrace("verify:setFailed")
               /\ Get(status, "verify") = Num(0)
               /\ GetState(store, "passed") = "true"
       /\ Count("verify:debug") <= 1
       /\ (pc = "debug" \/ InTrace("verify:debug"))
            => /\ Count("verify:tests") = 1
               /\ Has(status, "verify")
               /\ Get(status, "verify") # Num(0)
               /\ Get(states, "passed") = Bool(FALSE)
       /\ InTrace("verify:debug") => Before("verify:tests", "verify:debug")

\* verify ended after tests that passed: no debug run, not marked failed,
\* passed saved as "true"
C26_Witness ==
  /\ phase = "verify"
  /\ pc = "end"
  /\ Get(states, "passed") = Bool(TRUE)
  /\ failed.verify = ""
  /\ InTrace("verify:tests")
  /\ ~InTrace("verify:debug")
  /\ GetState(store, "passed") = "true"
  /\ GetState(store, "message") = "All Project 1 verification tests of v1.0.0 passed!"

\* the run before this one had the same latest commit of the tests and its
\* cleanup saved the cache
SavedByRunBefore == run > 1 /\ arg.saved /\ arg.hash = env.hash

\* C25: in the run after one whose cleanup saved the cache, with the same
\* latest commit of the tests: the restore of setup, once it has answered,
\* returned the exact key; setup runs neither the pull block nor the clone of
\* the tests; cleanup does not call cache.saveCache.
C25_NextRunHitsExactKey ==
  SavedByRunBefore
    => /\ cache[Len(cache)] = "project-tests-" \o env.hash
       /\ pc \notin {"gitStatus", "gitPull", "testClone", "testLs", "saveCache", "cacheCatch"}
       /\ (phase = "setup" /\ Has(states, "testCache"))
            => /\ Get(states, "testCache") = Str("project-tests-" \o env.hash)
               /\ Get(states, "testCache") = Get(states, "testKey")
               /\ warnings = 0
       /\ phase = "setup"
            => /\ ~InTrace("setup:gitStatus")
               /\ ~InTrace("setup:gitPull")
               /\ ~InTrace("setup:testClone")
       /\ phase = "cleanup" => ~InTrace("cleanup:saveCache")

\* the second run, on the commit whose key the first run saved after a cold
\* cache, restored the exact key and ended its cleanup without a save
C25_Witness ==
  /\ SavedByRunBefore
  /\ cache = <<"project-tests-abc123">>
  /\ phase = "cleanup"
  /\ pc = "end"
  /\ ExactHit
  /\ Get(states, "testKey") = Str("project-tests-abc123")
  /\ ~InTrace("cleanup:saveCache")
  /\ warnings = 0

\* the keys setup writes into its status map
SetupStatusKeys == {"mainClone", "testCache", "testClone"}

\* the keys verify writes into its status map
VerifyStatusKeys ==
  {"maven", "mainWarnings", "mainCompile", "testCompile", "verify", "debug"}

\* the keys cleanup writes into its status map
CleanupStatusKeys ==
  {"reports", "site", "siteZip", "sizeUpload", "actualZip", "actualUpload",
   "release", "testCache"}

\* the keys each process writes into its own status map
StatusKeysOf ==
  [setup |-> SetupStatusKeys, verify |-> VerifyStatusKeys, cleanup |-> CleanupStatusKeys]

\* the groups of cleanup the persisted entries ask for
\* line 22
StoreWantsReports == Has(store, "passed") /\ GetState(store, "passed") # "true"

\* line 159
StoreWantsRelease ==
  Has(store, "passed") /\ Has(store, "message") /\ StartsWith(env.ref, "refs/tags/v")

\* lines 212-213
StoreWantsSave ==
  /\ Has(store, "testKey")
  /\ ~(Has(store, "testCache") /\ GetState(store, "testKey") = GetState(store, "testCache"))

\* C22: the status map of a phase never reaches a later phase. Verify and
\* cleanup start with an empty status map, a status map holds only the keys
\* its own process writes, and the groups of steps a finished cleanup has
\* entered are those the persisted State entries and the ref ask for; so two
\* runs with equal persisted entries enter the same groups in cleanup
\* whatever the status maps of their setup and verify were.
C22_StatusStaysInProcess ==
  /\ (phase \in {"verify", "cleanup"} /\ pc = "restore") => status = <<>>
  /\ \A i \in 1..Len(status) : status[i].k \in StatusKeysOf[phase]
  /\ (phase = "cleanup" /\ pc = "end")
       => /\ InTrace("cleanup:reports") <=> StoreWantsReports
          /\ InTrace("cleanup:glob") <=> StoreWantsReports
          /\ InTrace("cleanup:getRelease") <=> StoreWantsRelease
          /\ InTrace("cleanup:saveCache") <=> StoreWantsSave

\* cleanup has ended after a verify whose tests failed: its status map has
\* its own testCache (a cache id) and nothing of verify, while the persisted
\* testCache is the empty text that setup copied into states
C22_Witness ==
  /\ phase = "cleanup"
  /\ pc = "end"
  /\ GetState(store, "passed") = "false"
  /\ Has(store, "testCache")
  /\ GetState(store, "testCache") = ""
  /\ Has(status, "testCache")
  /\ Get(status, "testCache").t = "number"
  /\ ~Has(status, "verify")
  /\ ~Has(status, "debug")
  /\ InTrace("cleanup:reports")
  /\ InTrace("cleanup:saveCache")

Next == Setup \/ Verify \/ Cleanup \/ NewRun
Spec == Init /\ [][Next]_vars

----------------------------------------------------------------------------
(* The cleanup process on its own, started on whatever the earlier phases  *)
(* of the run may have left in the store                                   *)

\* states of setup when it calls saveStates, the cache having answered found
StatesOfSetup(e, found) ==
  LET version == LastToken(e.ref)
      project == ResolveProject(version, e.project)
      s1 == Put(<<>>, "owner", Str(e.owner))
      s2 == Put(s1, "mainRepo", Str(e.owner \o "/" \o e.repo))
      s3 == Put(s2, "testRepo", Str(e.owner \o "/" \o testDir))
      s4 == Put(Put(Put(s3, "project", project), "version", Str(version)),
                "tester", Str("Project" \o TemplateStr(project) \o "Test*"))
      s5 == Put(s4, "testKey", Str(testDir \o "-" \o e.hash))
  IN Put(s5, "testCache", found)

\* how verify ended: before its tests, or after tests that passed or failed
VerifyEnds == {"early", "passed", "failed"}

\* states of verify when it calls saveStates in its finally block
StatesOfVerify(st, end) ==
  LET restored == RestoreStates(st, <<>>).val
      passed == end = "passed"
  IN IF end = "early" THEN restored
     ELSE Put(Put(restored, "passed", Bool(passed)), "message",
              Str(Message(passed, Get(restored, "project"), Get(restored, "version"))))

\* what a run with inputs e and cache c may have left when cleanup starts
LeftBy(e, c) ==
  LET found == RestoreCache(c, testDir \o "-" \o e.hash, <<testDir \o "-">>)
      saved == SaveStates(<<>>, StatesOfSetup(e, found))
      early == "Setup failed. Unable to clone main repository (1)."
      noProject == ResolveProject(LastToken(e.ref), e.project) = Undefined
  IN {[store |-> <<>>, failed |-> [NoFailure EXCEPT !.setup = early]]}
       \cup (IF noProject THEN {}
             ELSE {[store |-> SaveStates(saved, StatesOfVerify(saved, end)),
                    failed |-> [NoFailure EXCEPT !.verify =
                                  IF end = "passed" THEN ""
                                  ELSE "Unable to verify project. "]] :
                   end \in VerifyEnds})

InitCleanup ==
  /\ env \in Envs
  /\ cache \in InitCaches
  /\ \E left \in LeftBy(env, cache) : store = left.store /\ failed = left.failed
  /\ phase = "cleanup"
  /\ pc = "restore"
  /\ states = <<>>
  /\ status = <<>>
  /\ warnings = 0
  /\ error = ""
  /\ summary = NoFailure
  /\ trace = <<>>
  /\ shown = 0
  /\ run = 1
  /\ child = NoChild
  /\ arg = NoArg
  /\ ret = NoRet

\* the steps of the cleanup process
NextCleanup ==
  \/ CleanupRestore \/ CleanupReports \/ CleanupSite
  \/ CleanupLsSite \/ CleanupSiteZip \/ CleanupLsReports \/ CleanupUploadReports
  \/ CleanupReportsCatch \/ CleanupGlob \/ CleanupActualZip \/ CleanupLsActual
  \/ CleanupRmActual \/ CleanupUploadActual \/ CleanupActualCatch
  \/ CleanupGetRelease \/ CleanupUpdateRelease \/ CleanupReleaseCatch
  \/ CleanupSaveCache \/ CleanupCacheCatch \/ CleanupLog

\* the cleanup process keeps running: each of its steps is one call that
\* returns or throws
SpecCleanup == InitCleanup /\ [][NextCleanup]_vars /\ WF_vars(NextCleanup)

\* C19: every cleanup that has started, whatever the store holds and
\* whichever groups fail, reaches its final log and its warning summary.
C19_CleanupCompletes ==
  (phase = "cleanup" /\ pc = "restore")
    ~> (phase = "cleanup" /\ pc = "end" /\ InTrace("cleanup:checkWarnings"))

\* a cleanup that restored nothing, after a setup that failed, reached its
\* final log with no group attempted
C19_Witness ==
  /\ phase = "cleanup"
  /\ pc = "end"
  /\ failed.setup # ""
  /\ states = <<>>
  /\ trace = <<"cleanup:restoreStates", "cleanup:checkWarnings">>

----------------------------------------------------------------------------
(* Two setup processes, one after the other, each up to its cache key *)

\* the second setup starts, on other inputs and another cache; arg keeps the
\* inputs and the key of the first
KeyNextRun ==
  /\ phase = "setup"
  /\ pc = "restoreCache"
  /\ run < MaxRuns
  /\ arg' = [env |-> env, testKey |-> Get(states, "testKey")]
  /\ run' = run + 1
  /\ env' \in Envs
  /\ cache' \in InitCaches
  /\ pc' = "parse"
  /\ states' = <<>>
  /\ status' = <<>>
  /\ error' = ""
  /\ trace' = <<>>
  /\ child' = NoChild
  /\ UNCHANGED <<phase, warnings, store, failed, summary, shown, ret>>

NextKey ==
  \/ SetupParse \/ SetupMainClone \/ SetupMainLs \/ SetupListCommits
  \/ SetupCatch \/ SetupFinally \/ KeyNextRun

SpecKey == Init /\ [][NextKey]_vars

\* C20: of two setup runs that computed their cache key, the keys are equal
\* exactly when the commit hashes listed for the test repository are equal,
\* whatever the refs, the project inputs and the caches of the two runs; the
\* key is the name of the test directory, "-", and the hash.
C20_KeyBySha ==
  (run > 1 /\ Has(states, "testKey"))
    => /\ (Get(states, "testKey") = arg.testKey) <=> (env.hash = arg.env.hash)
       /\ Get(states, "testKey") = Str("project-tests-" \o env.hash)

\* two runs on different refs and project inputs with the same commit hash
\* computed the same key
C20_Witness ==
  /\ run > 1
  /\ Has(states, "testKey")
  /\ env.hash = arg.env.hash
  /\ env.ref # arg.env.ref
  /\ env.project # arg.env.project
  /\ cache # <<>>
  /\ Get(states, "testKey") = arg.testKey
  /\ arg.testKey = Str("project-tests-abc123")

----------------------------------------------------------------------------
(* The setup process on versions and project inputs of every shape *)

\* the project each test version that matches the pattern stands for
MatchingVersions ==
  [v \in {"v1.0.0", "v2.1.3", "v3.0.5", "v3.00.1", "v3.1.0", "v3.10.2", "v4.12.0"} |->
     CASE v = "v1.0.0" -> "1"
       [] v = "v2.1.3" -> "2"
       [] v \in {"v3.0.5", "v3.00.1"} -> "3a"
       [] v \in {"v3.1.0", "v3.10.2"} -> "3b"
       [] OTHER -> "4"]

\* test versions that do not match the pattern
OtherVersions ==
  {"v5.0.0", "v0.1.1", "v1.0", "V1.0.0", "v1.0.0-beta", "v12.0.0", "v1.a.0",
   "v3..1", "main"}

ProjectRefs ==
  {"refs/tags/" \o v : v \in (DOMAIN MatchingVersions) \cup (OtherVersions \ {"main"})}
    \cup {"refs/heads/main"}

ProjectTestInputs == {"", "1", "2", "3a", "3b", "4", "3", "5", "3A", "*"}

InitProject ==
  /\ env \in [ref : ProjectRefs, project : ProjectTestInputs, hash : {"abc123"},
              owner : {"usf-cs272"}, repo : {"project-ada"}]
  /\ cache \in InitCaches
  /\ phase = "setup"
  /\ pc = "parse"
  /\ states = <<>>
  /\ status = <<>>
  /\ warnings = 0
  /\ error = ""
  /\ store = <<>>
  /\ failed = NoFailure
  /\ summary = NoFailure
  /\ trace = <<>>
  /\ shown = 0
  /\ run = 1
  /\ child = NoChild
  /\ arg = NoArg
  /\ ret = NoRet

SpecProject == InitProject /\ [][Setup]_vars

\* the project the version and the input of this run stand for, "" when
\* they stand for none
ExpectedProject ==
  LET v == LastToken(env.ref)
  IN IF v \in DOMAIN MatchingVersions THEN MatchingVersions[v]
     ELSE IF env.project \in {"1", "2", "3a", "3b", "4"} THEN env.project
     ELSE ""

\* C24: once setup has read the version: a version that matches gives the
\* project of its first number (3a for v3.0.N, 3b for v3.M.N with M not 0)
\* whatever the project input; a version that does not match gives the input
\* when that is one of 1, 2, 3a, 3b, 4; tester is "Project" + project +
\* "Test*"; the project that setup saves is that one, never "*". With
\* neither, setup fails and saves nothing.
C24_ProjectFromVersion ==
  (phase = "setup" /\ InTrace("setup:parse"))
    => IF ExpectedProject # ""
       THEN /\ pc # "parse"
            /\ ToCommandValue(Get(states, "project")) = ExpectedProject
            /\ Get(states, "project") # Str("*")
            /\ Get(states, "version") = Str(LastToken(env.ref))
            /\ Get(states, "tester") = Str("Project" \o ExpectedProject \o "Test*")
            /\ ~Threw("setup:parse")
            /\ (pc = "end" /\ failed.setup = "")
                 => /\ GetState(store, "project") = ExpectedProject
                    /\ GetState(store, "tester") = "Project" \o ExpectedProject \o "Test*"
       ELSE /\ pc \in {"catch", "finally", "end"}
            /\ ~Has(states, "tester")
            /\ store = <<>>
            /\ pc = "end" => failed.setup # ""

\* setup succeeded on v3.00.1 with the project input 1: the version wins
\* and the minor number 00 counts as 0
C24_Witness ==
  /\ phase = "setup"
  /\ pc = "end"
  /\ failed.setup = ""
  /\ env.ref = "refs/tags/v3.00.1"
  /\ env.project = "1"
  /\ GetState(store, "project") = "3a"
  /\ GetState(store, "tester") = "Project3aTest*"

----------------------------------------------------------------------------
(* Two workflow runs for the same commit of the test suite: their cleanup  *)
(* processes run on two machines and share the cache service              *)

\* the variables of the cleanup process that is not taking the step
Other ==
  [phase |-> phase, pc |-> pc, states |-> states, status |-> status,
   warnings |-> warnings, error |-> error, store |-> store, failed |-> failed,
   summary |-> summary, trace |-> trace, shown |-> shown, child |-> child]

\* the next step is taken by the other cleanup process: run names the one
\* whose variables are in place, arg keeps those of the other one
RaceYield ==
  /\ arg.pc # "end"
  /\ run' = 3 - run
  /\ arg' = Other
  /\ phase' = arg.phase
  /\ pc' = arg.pc
  /\ states' = arg.states
  /\ status' = arg.status
  /\ warnings' = arg.warnings
  /\ error' = arg.error
  /\ store' = arg.store
  /\ failed' = arg.failed
  /\ summary' = arg.summary
  /\ trace' = arg.trace
  /\ shown' = arg.shown
  /\ child' = arg.child
  /\ UNCHANGED <<cache, env, ret>>

\* the inputs the two runs share: the same ref, the same commit of the tests
RaceEnvs == {e \in Envs : e.project = "" /\ e.hash = "abc123"}

\* setup.js lines 114-122 of both runs found no entry for the exact key and
\* both setups succeeded; the verify of the first run ended in any way, the
\* tests of the second run passed
InitRace ==
  /\ env \in RaceEnvs
  /\ cache \in InitCaches
  /\ RestoreCache(cache, testDir \o "-" \o env.hash, <<testDir \o "-">>)
       # Str(testDir \o "-" \o env.hash)
  /\ \E mine \in LeftBy(env, cache), other \in LeftBy(env, cache) :
       /\ mine.failed.setup = ""
       /\ other.failed = NoFailure
       /\ store = mine.store
       /\ failed = mine.failed
       /\ arg = [phase |-> "cleanup", pc |-> "restore", states |-> <<>>,
                 status |-> <<>>, warnings |-> 0, error |-> "",
                 store |-> other.store, failed |-> other.failed,
                 summary |-> NoFailure, trace |-> <<>>, shown |-> 0,
                 child |-> NoChild]
  /\ phase = "cleanup"
  /\ pc = "restore"
  /\ states = <<>>
  /\ status = <<>>
  /\ warnings = 0
  /\ error = ""
  /\ summary = NoFailure
  /\ trace = <<>>
  /\ shown = 0
  /\ run = 1
  /\ child = NoChild
  /\ ret = NoRet

NextRace == NextCleanup \/ RaceYield

SpecRace == InitRace /\ [][NextRace]_vars

\* the only catch block the process entered is the one of the cache group,
\* for the error of a key that is already held
OnlyTheRace(tr, err) ==
  \A i \in 1..Len(tr) :
    tr[i] \in GroupCatches
      => /\ tr[i] = "cleanup:cacheCatch"
         /\ StartsWith(err, "Unable to reserve cache with key")

\* the entries the cache holds for the key of the two runs
RaceEntries == {i \in 1..Len(cache) : cache[i] = GetState(store, "testKey")}

\* C21: when the cleanups of two runs for the same commit of the test suite
\* have both ended, and no call failed for a reason other than the key being
\* held, neither run is marked failed, neither has shown a warning, and the
\* cache holds exactly one entry for the key.
C21_RaceIsBenign ==
  (/\ pc = "end"
   /\ arg.pc = "end"
   /\ OnlyTheRace(trace, error)
   /\ OnlyTheRace(arg.trace, arg.error))
    => /\ failed.cleanup = ""
       /\ arg.failed.cleanup = ""
       /\ warnings = 0
       /\ arg.warnings = 0
       /\ summary.cleanup = ""
       /\ arg.summary.cleanup = ""
       /\ Cardinality(RaceEntries) = 1

============================================================================
